---- MODULE Spec2Model ----
(***************************************************************************)
(* Model of AFQ/tractography.py: track() and _local_tracking().            *)
(*                                                                         *)
(* A seed array is a record [kind |-> "ndarray", ndim, elems]: elems is    *)
(* the sequence of its rows (each row one seed, identified by a number).   *)
(* A 1-D array (one coordinate row) has ndim = 1 and a single element.     *)
(* A python list is [kind |-> "list", ndim |-> 0, elems |-> <<...>>].      *)
(* A streamline is identified by the seed it was grown from.               *)
(***************************************************************************)
EXTENDS Integers, Sequences, FiniteSets, Bags, TLC

MaxSeeds == 5
MaxChunks == 5
MaxCoeffs == 28

Engines == {"serial", "dask", "joblib"}
Directions == {"det", "prob", "deterministic", "probablistic"}
NJobs == {-1, 2}

VARIABLES
    pc,               \* position of track(): the statement about to run
    seeds,            \* the seed array (after line 70)
    n_chunks, n_jobs, engine, directions,
    ncoeffs,          \* model_params.shape[-1]
    tracked,          \* seeds from which LocalTracking yields a streamline
    dgclass,          \* the name dg after lines 74-77
    model,            \* the name model after lines 80-85
    dgctor,           \* the constructor that built the direction getter
    err,              \* the exception that ended track(), and its origin
    seeds_list, i1, i2, seeds_per_chunk, chunk,
    parfor_calls,     \* number of calls of parfor
    pending,          \* parfor: indices of the items not yet processed
    ll,               \* parfor: results by item index
    calls,            \* bag of the _local_tracking calls made: [arg, ret]
    result            \* the value returned by track()

vars == <<pc, seeds, n_chunks, n_jobs, engine, directions, ncoeffs, tracked,
          dgclass, model, dgctor, err, seeds_list, i1, i2, seeds_per_chunk,
          chunk, parfor_calls, pending, ll, calls, result>>

inputs == <<seeds, n_chunks, n_jobs, engine, directions, ncoeffs, tracked>>
chunkvars == <<seeds_list, i1, i2, seeds_per_chunk, chunk>>
parvars == <<parfor_calls, pending, ll>>
callvars == <<calls>>
dgvars == <<dgclass, model, dgctor>>

Unbound == "unbound"
NoError == [type |-> "none", from |-> "none"]
Unset == [kind |-> "unset", ndim |-> 0, elems |-> <<>>]

Min(a, b) == IF a < b THEN a ELSE b

NdArray(nd, rows) == [kind |-> "ndarray", ndim |-> nd, elems |-> rows]
PyList(items) == [kind |-> "list", ndim |-> 0, elems |-> items]

\* seeds.shape[0]
Shape0(a) == Len(a.elems)

\* seeds[lo:hi] for 0 <= lo, 0 <= hi: python clamps both ends to the length
Slice(a, lo, hi) ==
    NdArray(a.ndim, SubSeq(a.elems, Min(lo, Len(a.elems)) + 1,
                                    Min(hi, Len(a.elems))))

\* Iterating a python list gives its items; iterating a 2-D array gives its
\* rows as 1-D arrays.
Iterate(x) ==
    IF x.kind = "list" THEN x.elems
    ELSE [k \in 1..Len(x.elems) |-> NdArray(x.ndim - 1, <<x.elems[k]>>)]

\* dipy's LocalTracking grows streamlines seed by seed, in seed order; a seed
\* gives one streamline or none.  list(tracker) is the list of those grown.
LocalTracking(rows) == SelectSeq(rows, LAMBDA s : s \in tracked)

\* _local_tracking, lines 127-135: a 1-D seed is promoted to a 1 x 3 array
\* (seeds[None, ...]) and the tracker's streamlines are returned as a list.
_local_tracking(a) ==
    LET promoted == IF a.ndim = 1 THEN NdArray(2, a.elems) ELSE a
    IN  LocalTracking(promoted.elems)

\* The seeds actually handed to the tracker by a call of _local_tracking.
SeedsTracked(a) == a.elems

\* One call of _local_tracking, with its argument and its return value.
Called(a) == SetToBag({[arg |-> a, ret |-> _local_tracking(a)]})

\* Integer square root, as the largest r with r * r <= x.
ISqrt(x) == CHOOSE r \in 0..x : r * r <= x /\ (r + 1) * (r + 1) > x

\* shm.calculate_max_order (dipy): L = (-3 + sqrt(1 + 8 n)) / 2; L is returned
\* when it is a whole even number, a ValueError is raised otherwise.
calculate_max_order(n) ==
    LET r == ISqrt(1 + 8 * n)
    IN  IF r * r = 1 + 8 * n /\ r >= 3 /\ (r - 3) % 2 = 0
           /\ ((r - 3) \div 2) % 2 = 0
        THEN [raises |-> FALSE, value |-> (r - 3) \div 2]
        ELSE [raises |-> TRUE, value |-> 0]

\* Lines 80-85: the value bound to the name model; "raise" when the call of
\* calculate_max_order raises, Unbound when neither branch is taken.
ModelOfMut(n) ==
    IF n = 15 \/ n = 27 THEN "ODF"
    ELSE IF calculate_max_order(n).raises THEN "raise"
    ELSE IF calculate_max_order(n).value % 2 = 0 THEN "SHM"
    ELSE Unbound

ModelOfLax(n) ==
    IF n = 12 \/ n = 27 THEN "ODF"
    ELSE IF calculate_max_order(n).raises THEN "SHM"
    ELSE IF calculate_max_order(n).value % 2 = 0 THEN "SHM"
    ELSE Unbound

ModelOf(n) ==
    IF n = 12 \/ n = 27 THEN "ODF"
    ELSE IF calculate_max_order(n).raises THEN "raise"
    ELSE IF calculate_max_order(n).value % 2 = 0 THEN "SHM"
    ELSE Unbound

\* Lines 74-77: the class bound to the name dg.
DgOf(d) ==
    IF d = "det" THEN "DeterministicMaximumDirectionGetter"
    ELSE IF d = "prob" THEN "ProbabilisticDirectionGetter"
    ELSE Unbound

\* Line 102.
IsSerialMut(e) == e = "Serial"

IsSerial(e) == e = "serial"

\* Line 109.
SeedsPerChunk(S, C) == S \div C

\* Line 111: i1 = i2, the new slice starts where the previous one ended.
ChunkStartMut(prev_i2) == prev_i2 + 1

ChunkStart(prev_i2) == prev_i2

\* Line 115: seeds_list = seeds.
UnchunkedMut(a) == PyList(<<a>>)

Unchunked(a) == a

\* Line 121: list(chain(*ll)).
RECURSIVE ChainMut(_)
ChainMut(l) ==
    IF Len(l) <= 1 THEN <<>> ELSE Head(l) \o ChainMut(Tail(l))

RECURSIVE Chain(_)
Chain(l) == IF l = <<>> THEN <<>> ELSE Head(l) \o Chain(Tail(l))

Error(type, from) == [type |-> type, from |-> from]

Init ==
    /\ pc = "start"
    /\ \E S \in 1..MaxSeeds :
          /\ seeds = NdArray(2, [k \in 1..S |-> k])
          /\ tracked \in SUBSET (1..S)
    /\ n_chunks \in 1..MaxChunks
    /\ n_jobs \in NJobs
    /\ engine \in Engines
    /\ directions \in Directions
    /\ ncoeffs \in 1..MaxCoeffs
    /\ dgclass = Unbound
    /\ model = Unbound
    /\ dgctor = Unbound
    /\ err = NoError
    /\ seeds_list = Unset
    /\ i1 = 0
    /\ i2 = 0
    /\ seeds_per_chunk = 0
    /\ chunk = 0
    /\ parfor_calls = 0
    /\ pending = {}
    /\ ll = <<>>
    /\ calls = EmptyBag
    /\ result = <<>>

\* Lines 74-77: bind dg from the directions argument (no else branch).
BindDirectionGetter ==
    /\ pc = "start"
    /\ dgclass' = DgOf(directions)
    /\ pc' = "select_model"
    /\ UNCHANGED <<inputs, model, dgctor, err, chunkvars, parvars, callvars,
                   result>>

\* Lines 80-85: infer the model from the size of the last dimension.
SelectModel ==
    /\ pc = "select_model"
    /\ IF ModelOf(ncoeffs) = "raise"
       THEN /\ pc' = "error"
            /\ err' = Error("ValueError", "shm.calculate_max_order")
            /\ UNCHANGED model
       ELSE /\ pc' = "build_dg"
            /\ model' = ModelOf(ncoeffs)
            /\ UNCHANGED err
    /\ UNCHANGED <<inputs, dgclass, dgctor, chunkvars, parvars, callvars,
                   result>>

\* Lines 87-100: build the direction getter with the constructor of the model
\* (reading an unbound name raises UnboundLocalError in track itself), then
\* the stop mask and the threshold classifier.
BuildDirectionGetter ==
    /\ pc = "build_dg"
    /\ IF model = Unbound
       THEN /\ pc' = "error"
            /\ err' = Error("UnboundLocalError", "track:model")
            /\ UNCHANGED dgctor
       ELSE IF dgclass = Unbound
       THEN /\ pc' = "error"
            /\ err' = Error("UnboundLocalError", "track:dg")
            /\ UNCHANGED dgctor
       ELSE /\ pc' = "dispatch"
            /\ dgctor' = IF model = "SHM" THEN "from_shcoeff" ELSE "from_pmf"
            /\ UNCHANGED err
    /\ UNCHANGED <<inputs, dgclass, model, chunkvars, parvars, callvars,
                   result>>

\* Lines 102-104: the serial engine calls _local_tracking on all the seeds and
\* returns its list.
SerialTrack ==
    /\ pc = "dispatch"
    /\ IsSerial(engine)
    /\ calls' = calls (+) Called(seeds)
    /\ result' = _local_tracking(seeds)
    /\ pc' = "done"
    /\ UNCHANGED <<inputs, dgvars, err, chunkvars, parvars>>

\* Lines 106-109 and 114-115: start chunking, or hand over the seed array.
ChunkInit ==
    /\ pc = "dispatch"
    /\ ~IsSerial(engine)
    /\ IF n_chunks < Shape0(seeds)
       THEN /\ seeds_list' = PyList(<<>>)
            /\ i2' = 0
            /\ seeds_per_chunk' = SeedsPerChunk(Shape0(seeds), n_chunks)
            /\ chunk' = 0
            /\ pc' = "chunk_loop"
            /\ UNCHANGED i1
       ELSE /\ seeds_list' = Unchunked(seeds)
            /\ pc' = "parfor"
            /\ UNCHANGED <<i1, i2, seeds_per_chunk, chunk>>
    /\ UNCHANGED <<inputs, dgvars, err, parvars, callvars, result>>

\* Lines 110-113: one iteration of for chunk in range(n_chunks - 1).
ChunkStep ==
    /\ pc = "chunk_loop"
    /\ chunk < n_chunks - 1
    /\ i1' = ChunkStart(i2)
    /\ i2' = seeds_per_chunk * (chunk + 1)
    /\ seeds_list' = PyList(Append(seeds_list.elems, Slice(seeds, i1', i2')))
    /\ chunk' = chunk + 1
    /\ UNCHANGED <<pc, inputs, dgvars, err, seeds_per_chunk, parvars,
                   callvars, result>>

\* Line 110: range(n_chunks - 1) is exhausted.
ChunkLoopExit ==
    /\ pc = "chunk_loop"
    /\ chunk >= n_chunks - 1
    /\ pc' = "parfor"
    /\ UNCHANGED <<inputs, dgvars, err, chunkvars, parvars, callvars, result>>

\* Line 116, AFQ.utils.parallel.parfor: one task per element of in_list.
ParforCall ==
    /\ pc = "parfor"
    /\ parfor_calls' = parfor_calls + 1
    /\ pending' = 1..Len(Iterate(seeds_list))
    /\ ll' = [k \in 1..Len(Iterate(seeds_list)) |-> <<>>]
    /\ pc' = "parfor_run"
    /\ UNCHANGED <<inputs, dgvars, err, chunkvars, callvars, result>>

\* parfor: a worker applies func to one element; workers run in any order and
\* each result is stored at the position of its element.
ParforTask ==
    /\ pc = "parfor_run"
    /\ \E k \in pending :
          /\ calls' = calls (+) Called(Iterate(seeds_list)[k])
          /\ ll' = [ll EXCEPT ![k] = _local_tracking(Iterate(seeds_list)[k])]
          /\ pending' = pending \ {k}
    /\ UNCHANGED <<pc, inputs, dgvars, err, chunkvars, parfor_calls, result>>

\* parfor returns the list of results once every task is done.
ParforReturn ==
    /\ pc = "parfor_run"
    /\ pending = {}
    /\ pc' = "chain"
    /\ UNCHANGED <<inputs, dgvars, err, chunkvars, parvars, callvars, result>>

\* Line 121: return list(chain(*ll)).
ChainResults ==
    /\ pc = "chain"
    /\ result' = Chain(ll)
    /\ pc' = "done"
    /\ UNCHANGED <<inputs, dgvars, err, chunkvars, parvars, callvars>>

Next ==
    \/ BindDirectionGetter
    \/ SelectModel
    \/ BuildDirectionGetter
    \/ SerialTrack
    \/ ChunkInit
    \/ ChunkStep
    \/ ChunkLoopExit
    \/ ParforCall
    \/ ParforTask
    \/ ParforReturn
    \/ ChainResults

Spec == Init /\ [][Next]_vars

----------------------------------------------------------------------------
(* Vocabulary of the properties. *)

S == Len(seeds.elems)
NonSerial == engine # "serial"
Chunked == NonSerial /\ n_chunks < S
AfterChunking == pc \in {"parfor", "parfor_run", "chain", "done"}

RECURSIVE ConcatSlices(_)
ConcatSlices(slices) ==
    IF Len(slices) = 0 THEN <<>>
    ELSE ConcatSlices(SubSeq(slices, 1, Len(slices) - 1))
         \o slices[Len(slices)].elems

RECURSIVE SumLen(_, _)
SumLen(l, k) == IF k = 0 THEN 0 ELSE SumLen(l, k - 1) + Len(l[k])

RECURSIVE SumRows(_, _)
SumRows(slices, k) ==
    IF k = 0 THEN 0 ELSE SumRows(slices, k - 1) + Len(slices[k].elems)

\* n is the coefficient count of a spherical-harmonic basis of even order L.
ValidSH(n) == \E L \in 0..n : L % 2 = 0 /\ 2 * n = (L + 1) * (L + 2)
Unsupported(n) == n \notin {12, 27} /\ ~ValidSH(n)

\* C1: with a non-serial engine and 1 <= n_chunks < S, the slices of
\* seeds_list concatenated in append order are exactly the seed array.
C1_SlicesReconstructSeeds ==
    (Chunked /\ AfterChunking) => ConcatSlices(seeds_list.elems) = seeds.elems

\* C2: with a non-serial engine and 1 <= n_chunks < S, parfor is handed
\* exactly n_chunks slices, the first n_chunks - 1 of length S // n_chunks and
\* the last of length S - (n_chunks - 1) * (S // n_chunks).
C2_ChunkCountAndSizes ==
    (Chunked /\ AfterChunking) =>
        /\ Len(seeds_list.elems) = n_chunks
        /\ \A k \in 1..Len(seeds_list.elems) :
              Len(seeds_list.elems[k].elems) =
                 IF k < n_chunks THEN S \div n_chunks
                 ELSE S - (n_chunks - 1) * (S \div n_chunks)

\* C3: at every iteration of the chunking loop the slices appended so far are
\* contiguous and non-overlapping: the first starts at index 0, each later one
\* starts where the previous one ended, no seed is in two slices, and i2 never
\* exceeds S.
C3_SlicesContiguous ==
    (Chunked /\ pc = "chunk_loop") =>
        /\ i2 <= S
        /\ i1 <= i2
        /\ Len(seeds_list.elems) = chunk
        /\ i2 = SumRows(seeds_list.elems, chunk)
        /\ chunk >= 1 => i1 = SumRows(seeds_list.elems, chunk - 1)
        /\ \A k \in 1..chunk :
              LET start == SumRows(seeds_list.elems, k - 1)
                  slice == seeds_list.elems[k].elems
              IN  \A j \in 1..Len(slice) : slice[j] = seeds.elems[start + j]
        /\ \A k, m \in 1..chunk :
              k # m =>
                 \A j \in 1..Len(seeds_list.elems[k].elems) :
                    \A h \in 1..Len(seeds_list.elems[m].elems) :
                       seeds_list.elems[k].elems[j] # seeds_list.elems[m].elems[h]

C3_Witness ==
    /\ Chunked
    /\ pc = "chunk_loop"
    /\ chunk >= 2
    /\ i1 >= 1
    /\ Len(seeds_list.elems[2].elems) >= 1

\* C4 as stated: with a non-serial engine and n_chunks >= S, _local_tracking
\* is invoked exactly once and receives all S seeds.
C4_OneCallAllSeeds ==
    (NonSerial /\ n_chunks >= S /\ pc = "done") =>
        /\ BagCardinality(calls) = 1
        /\ \A c \in BagToSet(calls) : SeedsTracked(c.arg) = seeds.elems

\* C4 amended: with a non-serial engine and n_chunks >= S, the seed array
\* itself is the work list: every invocation of _local_tracking receives
\* exactly one seed, no seed is given to two invocations, and when parfor has
\* returned there were exactly S invocations, one for each seed.
C4_OneCallPerSeed ==
    (NonSerial /\ n_chunks >= S) =>
        /\ \A c \in BagToSet(calls) :
              /\ Len(SeedsTracked(c.arg)) = 1
              /\ CopiesIn(c, calls) = 1
        /\ pc \in {"chain", "done"} =>
              /\ BagCardinality(calls) = S
              /\ \A k \in 1..S :
                    \E c \in BagToSet(calls) :
                       SeedsTracked(c.arg) = <<seeds.elems[k]>>

C4_Witness ==
    /\ NonSerial
    /\ n_chunks >= S
    /\ S >= 2
    /\ pc = "done"
    /\ BagCardinality(calls) = S

\* C5: with engine = "serial", track never partitions the seeds and never
\* calls parfor, whatever n_chunks and n_jobs are; it invokes _local_tracking
\* once, on the complete seed array, and returns that call's list.
C5_SerialSingleCall ==
    (engine = "serial") =>
        /\ parfor_calls = 0
        /\ seeds_list.kind = "unset"
        /\ BagCardinality(calls) <= 1
        /\ \A c \in BagToSet(calls) : c.arg = seeds
        /\ pc = "done" =>
              /\ BagCardinality(calls) = 1
              /\ \A c \in BagToSet(calls) : result = c.ret

C5_Witness ==
    /\ engine = "serial"
    /\ pc = "done"
    /\ n_chunks < S
    /\ n_jobs = 2
    /\ BagCardinality(calls) = 1
    /\ Len(result) >= 2

\* C6: with a non-serial engine the returned list is the per-chunk results of
\* parfor laid end to end: chunk 0's streamlines, then chunk 1's, and so on,
\* each in its own order, and its length is the sum of the chunks' lengths.
C6_FlattenInOrder ==
    (NonSerial /\ pc = "done") =>
        /\ Len(result) = SumLen(ll, Len(ll))
        /\ \A k \in 1..Len(ll) :
              \A j \in 1..Len(ll[k]) :
                 result[SumLen(ll, k - 1) + j] = ll[k][j]

C6_Witness ==
    /\ NonSerial
    /\ pc = "done"
    /\ Len(ll) >= 3
    /\ ll[1] = <<>>
    /\ ll[2] # <<>>
    /\ ll[3] # <<>>
    /\ Len(result) >= 2

\* C7: the model is chosen by the size n of the last dimension alone: 12 and
\* 27 take the ODF path (from_pmf), every other n that is the coefficient
\* count of an even spherical-harmonic order takes the SHM path
\* (from_shcoeff), no n takes both, and testing ODF first diverts no valid
\* SHM count.
C7_ModelBySize ==
    (pc \notin {"start", "select_model"}) =>
        /\ ncoeffs \in {12, 27} => model = "ODF"
        /\ (ncoeffs \notin {12, 27} /\ ValidSH(ncoeffs)) => model = "SHM"
        /\ ValidSH(ncoeffs) => ncoeffs \notin {12, 27}
        /\ dgctor = "from_pmf" => (model = "ODF" /\ ncoeffs \in {12, 27})
        /\ dgctor = "from_shcoeff" =>
              (model = "SHM" /\ ncoeffs \notin {12, 27})
        /\ (pc \in {"dispatch", "done"} /\ model = "ODF") => dgctor = "from_pmf"
        /\ (pc \in {"dispatch", "done"} /\ model = "SHM") =>
              dgctor = "from_shcoeff"

C7_Witness ==
    /\ pc = "done"
    /\ ncoeffs = 28
    /\ model = "SHM"
    /\ dgctor = "from_shcoeff"

\* C8: for an unsupported last-dimension size (not 12, not 27, not the count
\* of an even spherical-harmonic order) track ends in an error raised by an
\* external library call; no tracking call is made, parfor is not called and
\* nothing is returned.
C8_UnsupportedShapeRaises ==
    Unsupported(ncoeffs) =>
        /\ pc \in {"start", "select_model", "error"}
        /\ pc = "error" => err = Error("ValueError", "shm.calculate_max_order")
        /\ calls = EmptyBag
        /\ parfor_calls = 0
        /\ result = <<>>

C8_Witness ==
    /\ Unsupported(ncoeffs)
    /\ pc = "error"
    /\ err.type = "ValueError"
    /\ calls = EmptyBag

\* C9: for the documented values of directions a direction getter is bound
\* before the model dispatch: "deterministic" gives the deterministic maximum
\* direction getter, "probablistic" the probabilistic one.
C9_DocumentedDirectionsBind ==
    (pc # "start") =>
        /\ directions = "deterministic" =>
              dgclass = "DeterministicMaximumDirectionGetter"
        /\ directions = "probablistic" =>
              dgclass = "ProbabilisticDirectionGetter"

\* C10: with a deterministic worker that yields per seed in seed order, the
\* list returned with a non-serial engine equals the list the serial engine
\* returns for the same inputs, for every S >= 1 and n_chunks >= 1.
C10_ParallelEqualsSerial ==
    (NonSerial /\ pc = "done") => result = LocalTracking(seeds.elems)

====
